---- MODULE Spec2Model ----
(***************************************************************************)
(* Price normalisation (MarketPriceInfo, src/main.py) and arbitrage        *)
(* detection (ArbitrageDetector, src/src/analysis/arbitrage_detector.py).  *)
(*                                                                         *)
(* Numbers.  The pricer computes in Python floats.  A float is modelled as *)
(* a binary floating-point number with Precision significand bits and      *)
(* round-to-nearest-even, held as an integer count of 2^-FracBits (the     *)
(* spacing of the smallest numbers of the format).  The detector computes  *)
(* in Decimal, which is exact on the two-decimal prices used here: a       *)
(* Decimal is held as an integer count of hundredths.                      *)
(***************************************************************************)
EXTENDS Integers, Sequences, FiniteSets, TLC

\* ------------------------------------------------------------------ bounds
\* significand bits of the modelled float format
Precision == 6
\* longest outcome list handed to get_market_prices
MaxOutcomes == 2
\* longest market list handed to find_arbitrage_opportunities
MaxMarkets == 3

\* ------------------------------------------------------- float arithmetic
RECURSIVE Pow2(_)
Pow2(n) == IF n = 0 THEN 1 ELSE 2 * Pow2(n - 1)

RECURSIVE Pow10(_)
Pow10(n) == IF n = 0 THEN 1 ELSE 10 * Pow10(n - 1)

FracBits == Precision + 6

\* the float 1.0
One == Pow2(FracBits)

\* least s such that q / 2^s has at most Precision bits
RECURSIVE ShiftOf(_, _)
ShiftOf(q, s) == IF q < Pow2(Precision) THEN s ELSE ShiftOf(q \div 2, s + 1)

\* a/b (a >= 0, b > 0, in units of 2^-FracBits) rounded to the nearest float,
\* ties to the even significand
RoundPos(a, b) ==
    LET s == ShiftOf(a \div b, 0)
        d == b * Pow2(s)
        m == a \div d
        r == a % d
        up == (2 * r > d) \/ (2 * r = d /\ m % 2 = 1)
    IN  (IF up THEN m + 1 ELSE m) * Pow2(s)

Round(a, b) == IF a >= 0 THEN RoundPos(a, b) ELSE 0 - RoundPos(0 - a, b)

FAdd(x, y) == Round(x + y, 1)
FSub(x, y) == Round(x - y, 1)
\* x / y for y > 0
FDiv(x, y) == Round(x * One, y)
FAbs(x) == IF x < 0 THEN 0 - x ELSE x
\* float(n) of a small int n
FInt(n) == n * One

\* ------------------------------------------------- Python values (src/main.py)
\* a dict with no keys
EmptyDict == [k \in {} |-> 0]

\* an insertion-ordered dict (held as a sequence of <<key, value>>): d[k] = v
RECURSIVE DictSet(_, _, _)
DictSet(d, k, v) ==
    IF d = << >> THEN << <<k, v>> >>
    ELSE IF Head(d)[1] = k THEN << <<k, v>> >> \o Tail(d)
    ELSE << Head(d) >> \o DictSet(Tail(d), k, v)

DictKeys(d) == {d[i][1] : i \in 1..Len(d)}
DictValues(d) == [i \in 1..Len(d) |-> d[i][2]]
DictGet(d, k) == d[CHOOSE i \in 1..Len(d) : d[i][1] = k][2]

\* str.lower() on the outcome names of the feed and the keys of the pricer
Lower(name) ==
    CASE name = "Yes" -> "yes"
      [] name = "NO" -> "no"
      [] name = "No" -> "no"
      [] name = "Up" -> "up"
      [] name = "Down" -> "down"
      [] OTHER -> name

\* ------------------------------------------------------- price strings
\* A price string is a sequence of characters.
Digits == {"0", "1", "2", "3", "4", "5", "6", "7", "8", "9"}

DigitVal(c) ==
    CASE c = "0" -> 0 [] c = "1" -> 1 [] c = "2" -> 2 [] c = "3" -> 3
      [] c = "4" -> 4 [] c = "5" -> 5 [] c = "6" -> 6 [] c = "7" -> 7
      [] c = "8" -> 8 [] c = "9" -> 9

\* the digits of s read as one integer, the decimal point skipped
RECURSIVE DigitsValue(_, _)
DigitsValue(s, acc) ==
    IF s = << >> THEN acc
    ELSE IF Head(s) = "." THEN DigitsValue(Tail(s), acc)
    ELSE DigitsValue(Tail(s), 10 * acc + DigitVal(Head(s)))

\* number of digits after the decimal point
RECURSIVE FracDigits(_)
FracDigits(s) ==
    IF s = << >> THEN 0
    ELSE IF Head(s) = "." THEN Len(s) - 1
    ELSE FracDigits(Tail(s))

\* Decimal(price) on unsigned fixed-point text ("0.45", "1", ".5"); any other
\* character makes the constructor raise InvalidOperation (ok = FALSE).
\* The value is num / 10^frac.
Decimal(price) ==
    LET points == {i \in 1..Len(price) : price[i] = "."}
        digits == {i \in 1..Len(price) : price[i] \in Digits}
        ok == /\ \A i \in 1..Len(price) : price[i] \in Digits \cup {"."}
              /\ Cardinality(points) <= 1
              /\ digits # {}
    IN  IF ok THEN [ok |-> TRUE, num |-> DigitsValue(price, 0), frac |-> FracDigits(price)]
        ELSE [ok |-> FALSE, num |-> 0, frac |-> 0]

\* float(d): the float nearest to the decimal
float(d) == Round(d.num * One, Pow10(d.frac))

\* MarketPriceInfo.get_probability_from_price: a price that does not parse is 0.0
get_probability_from_price(price) ==
    LET d == Decimal(price)
    IN  IF d.ok THEN float(d) ELSE 0

\* ------------------------------------------------------------ the pricer
\* One OutcomePriceEstimate.  normalized_probability is absent from the dict
\* when has_normalized is FALSE.
Estimate(prob, bid, ask, spread, has_norm, norm) ==
    [probability |-> prob, best_bid |-> bid, best_ask |-> ask,
     bid_ask_spread |-> spread, has_normalized |-> has_norm,
     normalized_probability |-> norm]

\* the estimate of the two except handlers: 0, 0, 0, 1, 1
DefaultEstimate == Estimate(0, 0, One, One, TRUE, 0)

PriceData(prices, total, efficiency, spread) ==
    [outcome_prices |-> prices, total_implied_probability |-> total,
     market_efficiency |-> efficiency, average_spread |-> spread]

\* dict.get(key, default)
Get(d, key, default) == IF key \in DOMAIN d THEN d[key] ELSE default

\* No priced as the complement of the best ask instead of the mid
BinaryEstimatesNoFromAsk(yes_best_bid, yes_best_ask) ==
    LET bid == get_probability_from_price(yes_best_bid)
        ask == get_probability_from_price(yes_best_ask)
        yes_mid == FDiv(FAdd(bid, ask), FInt(2))
    IN  PriceData(
            << <<"Yes", Estimate(yes_mid, bid, ask, FSub(ask, bid), TRUE, yes_mid)>>,
               <<"No", Estimate(FSub(One, ask), FSub(One, ask), FSub(One, bid),
                                FSub(ask, bid), TRUE, FSub(One, ask))>> >>,
            One, 0, FSub(ask, bid))

\* get_binary_market_prices, the body of the try block once both top-of-book
\* price strings are read
BinaryEstimates(yes_best_bid, yes_best_ask) ==
    LET bid == get_probability_from_price(yes_best_bid)
        ask == get_probability_from_price(yes_best_ask)
        yes_mid == FDiv(FAdd(bid, ask), FInt(2))
    IN  PriceData(
            << <<"Yes", Estimate(yes_mid, bid, ask, FSub(ask, bid), TRUE, yes_mid)>>,
               <<"No", Estimate(FSub(One, yes_mid), FSub(One, ask), FSub(One, bid),
                                FSub(ask, bid), TRUE, FSub(One, yes_mid))>> >>,
            One, 0, FSub(ask, bid))

\* get_binary_market_prices, the except handler
BinaryDefaults ==
    PriceData(<< <<"Yes", DefaultEstimate>>, <<"No", DefaultEstimate>> >>, 0, One, One)

\* get_binary_market_prices.  fetch.ok is FALSE when requests.get,
\* raise_for_status or response.json raises; [0] on a side that is present and
\* empty raises IndexError.
get_binary_market_prices(fetch) ==
    LET data == fetch.top
        bids == Get(data, "bids", << EmptyDict >>)
        asks == Get(data, "asks", << EmptyDict >>)
    IN  IF ~fetch.ok \/ bids = << >> \/ asks = << >>
        THEN BinaryDefaults
        ELSE BinaryEstimates(Get(bids[1], "price", <<"0">>),
                             Get(asks[1], "price", <<"1">>))

\* get_multi_outcome_prices, the loop over the outcomes: the state of the try
\* block after the loop.  bids[0] on an empty side raises IndexError and
\* ['price'] on a quote without a price raises KeyError.
RECURSIVE OutcomeLoop(_, _, _)
OutcomeLoop(outcomes, order_book, acc) ==
    IF outcomes = << >> \/ acc.raised THEN acc
    ELSE
        LET outcome == Head(outcomes)
            bids == Get(order_book, <<"bids", outcome.id>>, << [price |-> <<"0">>] >>)
            asks == Get(order_book, <<"asks", outcome.id>>, << [price |-> <<"1">>] >>)
        IN  IF \/ bids = << >> \/ asks = << >>
               \/ "price" \notin DOMAIN bids[1] \/ "price" \notin DOMAIN asks[1]
            THEN [acc EXCEPT !.raised = TRUE]
            ELSE
                LET best_bid == get_probability_from_price(bids[1].price)
                    best_ask == get_probability_from_price(asks[1].price)
                    mid_price == FDiv(FAdd(best_bid, best_ask), FInt(2))
                IN  OutcomeLoop(Tail(outcomes), order_book,
                        [raised |-> FALSE,
                         outcome_prices |->
                             DictSet(acc.outcome_prices, outcome.name,
                                 Estimate(mid_price, best_bid, best_ask,
                                          FSub(best_ask, best_bid), FALSE, 0)),
                         total |-> FAdd(acc.total, mid_price)])

\* get_multi_outcome_prices, "Calculate normalized probabilities"
Normalize(outcome_prices, total_implied_probability) ==
    IF total_implied_probability > 0
    THEN [i \in 1..Len(outcome_prices) |->
            <<outcome_prices[i][1],
              [outcome_prices[i][2] EXCEPT
                 !.has_normalized = TRUE,
                 !.normalized_probability =
                     FDiv(outcome_prices[i][2].probability, total_implied_probability)]>>]
    ELSE outcome_prices

\* sum(...) of a sequence of floats, from the int 0, left to right
RECURSIVE FSum(_, _)
FSum(xs, acc) == IF xs = << >> THEN acc ELSE FSum(Tail(xs), FAdd(acc, Head(xs)))

\* a handler that stops one outcome short
MultiDefaultsShort(outcomes) ==
    LET Build[i \in 0..Len(outcomes)] ==
            IF i = 0 THEN << >>
            ELSE DictSet(Build[i - 1], outcomes[i].name, DefaultEstimate)
    IN  PriceData(Build[IF Len(outcomes) > 1 THEN Len(outcomes) - 1 ELSE Len(outcomes)],
                  0, One, One)

\* get_multi_outcome_prices, the except handler
MultiDefaults(outcomes) ==
    LET Build[i \in 0..Len(outcomes)] ==
            IF i = 0 THEN << >>
            ELSE DictSet(Build[i - 1], outcomes[i].name, DefaultEstimate)
    IN  PriceData(Build[Len(outcomes)], 0, One, One)

\* get_multi_outcome_prices.  The division by len(outcomes) raises
\* ZeroDivisionError on an empty outcome list.
get_multi_outcome_prices(fetch, outcomes) ==
    LET loop == OutcomeLoop(outcomes, fetch.per,
                    [raised |-> FALSE, outcome_prices |-> << >>, total |-> 0])
    IN  IF ~fetch.ok \/ loop.raised \/ Len(outcomes) = 0
        THEN MultiDefaults(outcomes)
        ELSE
            LET outcome_prices == Normalize(loop.outcome_prices, loop.total)
                spreads == [i \in 1..Len(outcome_prices) |->
                               outcome_prices[i][2].bid_ask_spread]
            IN  PriceData(outcome_prices, loop.total,
                          FAbs(FSub(One, loop.total)),
                          FDiv(FSum(spreads, 0), FInt(Len(outcomes))))

\* get_market_prices, the dispatch condition
IsBinary(outcomes) ==
    /\ Len(outcomes) = 2
    /\ \E i \in 1..Len(outcomes) : Lower(outcomes[i].name) \in {"yes", "no"}

\* get_market_prices
get_market_prices(fetch, outcomes) ==
    IF IsBinary(outcomes)
    THEN get_binary_market_prices(fetch)
    ELSE get_multi_outcome_prices(fetch, outcomes)

\* get_compact_market_info: the market's question and outcome names, and
\* under "prices" what get_market_prices returned
get_compact_market_info(question, fetch, outcomes) ==
    [question |-> question,
     outcomes |-> [i \in 1..Len(outcomes) |-> outcomes[i].name],
     prices |-> get_market_prices(fetch, outcomes)]

\* ---------------------------------------------------------- the detector
\* A Decimal is held as its count of hundredths.
DScale == Pow10(2)

\* the hundredths of a parsed Decimal with at most two fractional digits
Hundredths(d) == (d.num * DScale) \div Pow10(d.frac)

\* Decimal('...') on text that parses
Dec(text) == Hundredths(Decimal(text))

\* Decimal(n) of an int
DInt(n) == n * DScale

\* Decimal * Decimal, exact on the products formed below
DMul(a, b) == (a * b) \div DScale

\* ArbitrageDetector.__init__
min_profit_threshold == Dec(<<"0", ".", "0", "2">>)
transaction_fee == Dec(<<"0", ".", "0", "2">>)

\* the names bound at module level in arbitrage_detector.py
ModuleGlobals ==
    {"dataclass", "List", "Dict", "Optional", "Decimal", "Market",
     "ArbitrageOpportunity", "ArbitrageDetector"}

None == << >>
Returns(value) == [exc |-> "none", value |-> value]
Raises(exc) == [exc |-> exc, value |-> None]

\* the except handler of the three checks: logger.error(...), then fall
\* through to "return None".  Reading a name that is not bound raises NameError.
ExceptHandler ==
    IF "logger" \in ModuleGlobals THEN Returns(None) ELSE Raises("NameError")

\* Decimal(str(market.prices[key])) raises KeyError (key absent) or
\* InvalidOperation (text that is no number)
PriceFails(market, key) ==
    \/ key \notin DOMAIN market.prices
    \/ ~Decimal(market.prices[key]).ok

Price(market, key) == Dec(market.prices[key])

\* capital_required = (Decimal('1') * 100)
capital_required == DMul(Dec(<<"1">>), DInt(100))

\* the fee of one leg only
transaction_costs_one_leg == DMul(capital_required, transaction_fee)

\* transaction_costs = capital_required * self.transaction_fee * Decimal('2')
transaction_costs == DMul(DMul(capital_required, transaction_fee), Dec(<<"2">>))

\* potential_profit = (gross edge * capital_required) - transaction_costs
potential_profit(edge) == DMul(edge, capital_required) - transaction_costs

\* the comparison written >= instead of >
ClearsThresholdOrEqual(profit) == profit >= DMul(min_profit_threshold, capital_required)

\* if potential_profit > self.min_profit_threshold * capital_required
ClearsThreshold(profit) == profit > DMul(min_profit_threshold, capital_required)

Step(market, action, side, price) ==
    [market |-> market.question, action |-> action, side |-> side, price |-> price]

ArbitrageOpportunity(markets, profit, risk_level, steps) ==
    [markets |-> markets, profit_potential |-> profit, risk_level |-> risk_level,
     required_capital |-> capital_required, action_steps |-> steps,
     transaction_costs |-> transaction_costs, net_profit |-> profit]

\* check_complementary_markets, the body of the try block
ComplementaryBody(market1, market2) ==
    LET market1_yes == Price(market1, "YES")
        market1_no == Price(market1, "NO")
        market2_yes == Price(market2, "YES")
        market2_no == Price(market2, "NO")
        yes_profit == potential_profit(Dec(<<"1">>) - (market1_yes + market2_yes))
        no_profit == potential_profit(Dec(<<"1">>) - (market1_no + market2_no))
    IN  IF market1_yes + market2_yes < Dec(<<"1">>) /\ ClearsThreshold(yes_profit)
        THEN << ArbitrageOpportunity(<<market1, market2>>, yes_profit, "LOW",
                    << Step(market1, "BUY", "YES", market1_yes),
                       Step(market2, "BUY", "YES", market2_yes) >>) >>
        ELSE IF market1_no + market2_no < Dec(<<"1">>) /\ ClearsThreshold(no_profit)
        THEN << ArbitrageOpportunity(<<market1, market2>>, no_profit, "LOW",
                    << Step(market1, "BUY", "NO", market1_no),
                       Step(market2, "BUY", "NO", market2_no) >>) >>
        ELSE None

check_complementary_markets(market1, market2) ==
    IF \/ PriceFails(market1, "YES") \/ PriceFails(market1, "NO")
       \/ PriceFails(market2, "YES") \/ PriceFails(market2, "NO")
    THEN ExceptHandler
    ELSE Returns(ComplementaryBody(market1, market2))

\* check_nested_markets and check_temporal_markets, the body of the try block:
\* the two differ in the names of their parameters only
SellBuyBody(first, second) ==
    LET first_yes == Price(first, "YES")
        second_yes == Price(second, "YES")
        profit == potential_profit(first_yes - second_yes)
    IN  IF first_yes > second_yes /\ ClearsThreshold(profit)
        THEN << ArbitrageOpportunity(<<first, second>>, profit, "MEDIUM",
                    << Step(first, "SELL", "YES", first_yes),
                       Step(second, "BUY", "YES", second_yes) >>) >>
        ELSE None

check_nested_markets(subset_market, superset_market) ==
    IF PriceFails(subset_market, "YES") \/ PriceFails(superset_market, "YES")
    THEN ExceptHandler
    ELSE Returns(SellBuyBody(subset_market, superset_market))

check_temporal_markets(earlier_market, later_market) ==
    IF PriceFails(earlier_market, "YES") \/ PriceFails(later_market, "YES")
    THEN ExceptHandler
    ELSE Returns(SellBuyBody(earlier_market, later_market))

\* -------------------------------------------------------- the classifier
\* The three predicates are stubs in the source ("Implementation needed").
\* They are modelled from the specification's rules on market metadata: family
\* is the underlying question, scope the set of resolutions on which the market
\* resolves YES, end_date the resolution date.
Resolutions == {1, 2}

_are_complementary(market1, market2) ==
    /\ market1.family = market2.family
    /\ market1.scope \cap market2.scope = {}
    /\ market1.scope \cup market2.scope = Resolutions

_is_nested(market1, market2) ==
    /\ market1.end_date <= market2.end_date
    /\ market1.scope \subseteq market2.scope
    /\ market1.scope # market2.scope

_are_temporal(market1, market2) ==
    /\ market1.family = market2.family
    /\ market1.end_date <= market2.end_date

\* ------------------------------------------------------------ the ranking
\* sorted(opportunities, key=lambda x: x.profit_potential, reverse=True):
\* descending, equal keys in their original order
\* a sort that puts an opportunity before those of equal profit
RECURSIVE InsertBeforeEqual(_, _)
InsertBeforeEqual(sorted, opp) ==
    IF sorted = << >> THEN << opp >>
    ELSE IF Head(sorted).profit_potential <= opp.profit_potential
    THEN << opp >> \o sorted
    ELSE << Head(sorted) >> \o InsertBeforeEqual(Tail(sorted), opp)

RECURSIVE Insert(_, _)
Insert(sorted, opp) ==
    IF sorted = << >> THEN << opp >>
    ELSE IF Head(sorted).profit_potential < opp.profit_potential
    THEN << opp >> \o sorted
    ELSE << Head(sorted) >> \o Insert(Tail(sorted), opp)

RECURSIVE Sorted(_)
Sorted(opportunities) ==
    IF opportunities = << >> THEN << >>
    ELSE Insert(Sorted(SubSeq(opportunities, 1, Len(opportunities) - 1)),
                opportunities[Len(opportunities)])

\* for i, market1 in enumerate(markets): for market2 in markets[i+1:]
RECURSIVE PairsFrom(_, _, _)
PairsFrom(i, j, n) ==
    IF i > n THEN << >>
    ELSE IF j > n THEN PairsFrom(i + 1, i + 2, n)
    ELSE << <<i, j>> >> \o PairsFrom(i, j + 1, n)

\* What a predicate of the detector `self` answers.  The shipped
\* ArbitrageDetector has the three predicates as stubs whose body is `pass`:
\* they answer None.  A detector with classifier "rules" answers by the rules
\* above.
Predicate(self, ruled) ==
    IF self.classifier = "stub" THEN "None"
    ELSE IF ruled THEN "True" ELSE "False"

\* a test that takes every answer but False for true
TruthyUnlessFalse(answer) == answer # "False"

\* the truth value `if` gives a predicate's answer
Truthy(answer) == answer = "True"

\* one call made by find_arbitrage_opportunities, on the pair at (i, j)
Called(op, i, j) == [op |-> op, i |-> i, j |-> j]

\* one relationship kind on one pair: the predicate is called; if its answer
\* is true the check is called, and its opportunity, if any, is appended; an
\* exception leaves the loops
CheckKind(acc, predicate, answer, check, checked, i, j) ==
    IF acc.exc # "none" THEN acc
    ELSE IF ~Truthy(answer)
    THEN [acc EXCEPT !.trace = acc.trace \o << Called(predicate, i, j) >>]
    ELSE IF checked.exc # "none"
    THEN [acc EXCEPT !.exc = checked.exc,
                     !.trace = acc.trace \o << Called(predicate, i, j), Called(check, i, j) >>]
    ELSE [acc EXCEPT !.value = acc.value \o checked.value,
                     !.trace = acc.trace \o << Called(predicate, i, j), Called(check, i, j) >>]

\* the body of the inner loop of find_arbitrage_opportunities, on
\* market1 = markets[i] and market2 = markets[j]
PairBody(self, acc, markets, i, j) ==
    LET market1 == markets[i]
        market2 == markets[j]
        c == CheckKind(acc, "_are_complementary",
                       Predicate(self, _are_complementary(market1, market2)),
                       "check_complementary_markets",
                       check_complementary_markets(market1, market2), i, j)
        n == CheckKind(c, "_is_nested",
                       Predicate(self, _is_nested(market1, market2)),
                       "check_nested_markets",
                       check_nested_markets(market1, market2), i, j)
    IN  CheckKind(n, "_are_temporal",
                  Predicate(self, _are_temporal(market1, market2)),
                  "check_temporal_markets",
                  check_temporal_markets(market1, market2), i, j)

RECURSIVE PairLoop(_, _, _, _)
PairLoop(self, markets, pairs, acc) ==
    IF pairs = << >> THEN acc
    ELSE PairLoop(self, markets, Tail(pairs),
                  PairBody(self, acc, markets, Head(pairs)[1], Head(pairs)[2]))

\* the two loops of find_arbitrage_opportunities: the opportunities in the
\* order they were appended, or the exception that left the loops, and the
\* calls made, in order
Discovered(self, markets) ==
    PairLoop(self, markets, PairsFrom(1, 2, Len(markets)),
             [exc |-> "none", value |-> << >>, trace |-> << >>])

find_arbitrage_opportunities(self, markets) ==
    LET found == Discovered(self, markets)
    IN  IF found.exc # "none" THEN Raises(found.exc)
        ELSE Returns(Sorted(found.value))

\* ------------------------------------------------------------ the inputs
\* the outcomes the feed supplies, as {id, name}; two of them share a name
OutcomeCatalogue ==
    << [id |-> 1, name |-> "Yes"], [id |-> 2, name |-> "NO"],
       [id |-> 3, name |-> "Up"], [id |-> 4, name |-> "Up"],
       [id |-> 5, name |-> "Down"] >>

\* outcome lists: the runs of the catalogue of length 0..MaxOutcomes
OutcomeLists ==
    { SubSeq(OutcomeCatalogue, i, i + n - 1) :
        <<i, n>> \in { <<i, n>> \in (1..Len(OutcomeCatalogue)) \X (0..MaxOutcomes) :
                        i + n - 1 <= Len(OutcomeCatalogue) } }

\* one side of a book that is present: empty, or one quote; a quote has a
\* price string (a number, or text that is none) or no price at all
SidesOf(price_strings) ==
    { << >>, << EmptyDict >> } \cup { << [price |-> p] >> : p \in price_strings }

BinarySides ==
    SidesOf({ <<"0", ".", "2">>, <<"0", ".", "4", "5">>, <<"0", ".", "6">>,
              <<"1">>, <<"x">> })

MultiSides == SidesOf({ <<"0", ".", "2">>, <<"0", ".", "6">>, <<"x">> })

\* every dict with keys among `keys` and values among `values`
Dicts(keys, values) == UNION { [K -> values] : K \in SUBSET keys }

FetchFailed == [ok |-> FALSE, top |-> EmptyDict, per |-> EmptyDict]

\* what the order-book request can give for a market: a failure, or a book
\* under the keys the pricer reads for these outcomes
Fetches(outcomes) ==
    { FetchFailed } \cup
    IF IsBinary(outcomes)
    THEN { [ok |-> TRUE, top |-> t, per |-> EmptyDict] :
             t \in Dicts({"bids", "asks"}, BinarySides) }
    ELSE { [ok |-> TRUE, top |-> EmptyDict, per |-> b] :
             b \in Dicts({"bids", "asks"} \X {outcomes[i].id : i \in 1..Len(outcomes)},
                         MultiSides) }

\* prices of the markets handed to a single check
CheckPrices ==
    { <<"0", ".", "2">>, <<"0", ".", "3">>, <<"0", ".", "4">>, <<"0", ".", "4", "5">>,
      <<"0", ".", "5">>, <<"0", ".", "5", "4">>, <<"0", ".", "5", "5">>,
      <<"0", ".", "6">> }

Market(question, family, scope, end_date, prices) ==
    [question |-> question, family |-> family, scope |-> scope,
     end_date |-> end_date, prices |-> prices]

CheckMarkets ==
    { Market("m", 1, {1}, 1, prices) :
        prices \in [{"YES", "NO"} -> CheckPrices] \cup
                   { [YES |-> <<"0", ".", "4">>], [NO |-> <<"0", ".", "4">>],
                     [YES |-> <<"x">>, NO |-> <<"0", ".", "6">>] } }

\* the markets handed to find_arbitrage_opportunities
MarketCatalogue ==
    { Market("A", 1, {1}, 1, [YES |-> <<"0", ".", "4">>, NO |-> <<"0", ".", "6">>]),
      Market("B", 1, {2}, 2, [YES |-> <<"0", ".", "4", "5">>, NO |-> <<"0", ".", "5", "5">>]),
      Market("C", 1, {1}, 1, [YES |-> <<"0", ".", "6">>, NO |-> <<"0", ".", "4">>]),
      Market("D", 1, {1, 2}, 2, [YES |-> <<"0", ".", "2">>, NO |-> <<"0", ".", "4", "5">>]),
      Market("E", 1, {}, 1, [YES |-> <<"0", ".", "3">>]),
      Market("F", 2, {}, 1, [YES |-> <<"0", ".", "3">>, NO |-> <<"0", ".", "3">>]) }

MarketLists == UNION { [1..n -> MarketCatalogue] : n \in 0..MaxMarkets }

\* The Market a check is handed in the pipeline pricer -> detector.  The class
\* Market and the client that builds it are not in the source; the market's
\* prices are the pricer's output, either as get_compact_market_info holds it
\* ("compact": the whole price data) or as the specification's data model
\* holds it ("estimates": the estimate of each outcome under its key).
MarketShapes == {"compact", "estimates"}

MarketOf(info, shape) ==
    Market(info.question, 1, {1}, 1,
           IF shape = "compact" THEN info.prices
           ELSE [k \in DictKeys(info.prices.outcome_prices) |->
                    DictGet(info.prices.outcome_prices, k)])

\* the binary market of the pipeline
BinaryOutcomes == << [id |-> 1, name |-> "Yes"], [id |-> 2, name |-> "NO"] >>

\* the detectors: the shipped one, whose predicates are stubs, and one whose
\* predicates are implemented by the rules
Detectors == { [classifier |-> "stub"], [classifier |-> "rules"] }

\* ------------------------------------------------------ the state machine
\* One call of one operation: call names it, args holds its arguments, and
\* ret, once pc is "returned", what it gave back (for the checks and the run,
\* [exc, value]: the exception that left the call, or the value returned).
VARIABLES call, args, ret, pc

vars == <<call, args, ret, pc>>

CalledPricer ==
    /\ call = "get_market_prices"
    /\ \E outcomes \in OutcomeLists :
           \E fetch \in Fetches(outcomes) :
               args = [outcomes |-> outcomes, fetch |-> fetch]

CalledCheck ==
    /\ call \in {"check_complementary_markets", "check_nested_markets",
                 "check_temporal_markets"}
    /\ \E market1 \in CheckMarkets, market2 \in CheckMarkets :
           args = <<market1, market2>>

CalledFind ==
    /\ call = "find_arbitrage_opportunities"
    /\ \E self \in Detectors, markets \in MarketLists :
           args = [self |-> self, markets |-> markets]

\* two binary markets are priced and handed to one check
CalledPipeline ==
    /\ call = "pipeline"
    /\ \E book1 \in Fetches(BinaryOutcomes), book2 \in Fetches(BinaryOutcomes),
          shape \in MarketShapes,
          check \in {"check_complementary_markets", "check_nested_markets",
                     "check_temporal_markets"} :
           args = [books |-> <<book1, book2>>, shape |-> shape, check |-> check]

Init ==
    /\ ret = << >>
    /\ pc = "called"
    /\ CalledPricer \/ CalledCheck \/ CalledFind \/ CalledPipeline

Return(value) ==
    /\ ret' = value
    /\ pc' = "returned"
    /\ UNCHANGED <<call, args>>

GetMarketPrices ==
    /\ pc = "called" /\ call = "get_market_prices"
    /\ Return(get_market_prices(args.fetch, args.outcomes))

CheckComplementary ==
    /\ pc = "called" /\ call = "check_complementary_markets"
    /\ Return(check_complementary_markets(args[1], args[2]))

CheckNested ==
    /\ pc = "called" /\ call = "check_nested_markets"
    /\ Return(check_nested_markets(args[1], args[2]))

CheckTemporal ==
    /\ pc = "called" /\ call = "check_temporal_markets"
    /\ Return(check_temporal_markets(args[1], args[2]))

FindArbitrageOpportunities ==
    /\ pc = "called" /\ call = "find_arbitrage_opportunities"
    /\ Return(find_arbitrage_opportunities(args.self, args.markets))

\* the two markets of a pipeline run, priced from their books
Priced1 == MarketOf(get_compact_market_info("m1", args.books[1], BinaryOutcomes), args.shape)
Priced2 == MarketOf(get_compact_market_info("m2", args.books[2], BinaryOutcomes), args.shape)

\* the pipeline pricer -> detector on two binary markets
Pipeline ==
    /\ pc = "called" /\ call = "pipeline"
    /\ Return(CASE args.check = "check_complementary_markets" ->
                       check_complementary_markets(Priced1, Priced2)
                [] args.check = "check_nested_markets" ->
                       check_nested_markets(Priced1, Priced2)
                [] args.check = "check_temporal_markets" ->
                       check_temporal_markets(Priced1, Priced2))

Next ==
    \/ GetMarketPrices
    \/ CheckComplementary
    \/ CheckNested
    \/ CheckTemporal
    \/ FindArbitrageOpportunities
    \/ Pipeline

Spec == Init /\ [][Next]_vars

\* ------------------------------------------------------------ the claims
Checks ==
    {"check_complementary_markets", "check_nested_markets", "check_temporal_markets"}

Returned(c) == pc = "returned" /\ call = c

\* the market's price under key is there and is a number
HasPrice(market, key) ==
    key \in DOMAIN market.prices /\ Decimal(market.prices[key]).ok

\* the value returned is an opportunity whose legs are on `side`
Emitted(side) ==
    /\ ret.exc = "none"
    /\ ret.value # None
    /\ \A i \in 1..2 : ret.value[1].action_steps[i].side = side

\* C1: each check emits its opportunity if and only if its trigger holds and
\* the net profit, gross edge x 100 - 4, is strictly above 0.02 x 100 = 2
\* (in hundredths: edge x 100 - 400 > 200); the YES side of the Complementary
\* check, the Nested check and the Temporal check, on every pair of prices.
C1_EmitIffThreshold ==
    /\ /\ Returned("check_complementary_markets")
       /\ \A i \in 1..2 : HasPrice(args[i], "YES") /\ HasPrice(args[i], "NO")
       => LET sum == Dec(args[1].prices.YES) + Dec(args[2].prices.YES)
              net == (100 - sum) * 100 - 400
          IN  /\ ret.exc = "none"
              /\ Emitted("YES") <=> (sum < 100 /\ net > 200)
              /\ Emitted("YES") => ret.value[1].net_profit = net
    /\ /\ pc = "returned"
       /\ call \in {"check_nested_markets", "check_temporal_markets"}
       /\ \A i \in 1..2 : HasPrice(args[i], "YES")
       => LET first == Dec(args[1].prices.YES)
              second == Dec(args[2].prices.YES)
              net == (first - second) * 100 - 400
          IN  /\ ret.exc = "none"
              /\ ret.value # None <=> (first > second /\ net > 200)
              /\ ret.value # None => ret.value[1].net_profit = net

\* C1 witness: yes = 0.40 and 0.45, Complementary: emitted with net profit 11
C1_Witness ==
    /\ Returned("check_complementary_markets")
    /\ \A i \in 1..2 : HasPrice(args[i], "YES") /\ HasPrice(args[i], "NO")
    /\ Dec(args[1].prices.YES) = 40 /\ Dec(args[2].prices.YES) = 45
    /\ Emitted("YES")
    /\ ret.value[1].net_profit = 1100

\* C2: a failure inside one relationship check is caught and the check is
\* skipped: no check, and no run of find_arbitrage_opportunities, ends in an
\* exception.
C2_NeverRaises ==
    pc = "returned" /\ call \in Checks \cup {"find_arbitrage_opportunities"}
    => ret.exc = "none"

IsBinaryCall == call = "get_market_prices" /\ IsBinary(args.outcomes)
IsMultiCall == call = "get_market_prices" /\ ~IsBinary(args.outcomes)

EmptySide(side) == side \in DOMAIN args.fetch.top /\ args.fetch.top[side] = << >>

C4_SpreadNonNegative ==
    pc = "returned" /\ call = "get_market_prices"
    => \A i \in 1..Len(ret.outcome_prices) :
           ret.outcome_prices[i][2].bid_ask_spread >= 0

\* the order-book fetch failed, or reading the book raised: a side that is
\* present and empty, or (multi-outcome path) a top quote without a price
FetchOrParseFailed ==
    \/ ~args.fetch.ok
    \/ IsBinaryCall /\ (EmptySide("bids") \/ EmptySide("asks"))
    \/ /\ IsMultiCall
       /\ \/ Len(args.outcomes) = 0
          \/ \E k \in DOMAIN args.fetch.per :
                /\ k[2] \in {args.outcomes[i].id : i \in 1..Len(args.outcomes)}
                /\ \/ args.fetch.per[k] = << >>
                   \/ "price" \notin DOMAIN args.fetch.per[k][1]

IsDefault(estimate) ==
    /\ estimate.probability = 0
    /\ estimate.best_bid = 0
    /\ estimate.best_ask = One
    /\ estimate.bid_ask_spread = One

RECURSIVE SumSeq(_)
SumSeq(xs) == IF xs = << >> THEN 0 ELSE Head(xs) + SumSeq(Tail(xs))

\* the rounding tolerance on a sum of n normalised floats: n units in the
\* last place of 1.0
Tolerance(n) == n * Pow2(FracBits - Precision)

\* C6: for every multi-outcome market with total_implied_probability > 0,
\* every outcome has normalized_probability = raw / total, and the normalized
\* probabilities sum to 1 within rounding tolerance.
C6_NormalizedSumsToOne ==
    /\ pc = "returned" /\ IsMultiCall /\ ~FetchOrParseFailed
    /\ ret.total_implied_probability > 0
    => LET estimates == DictValues(ret.outcome_prices)
           sum == SumSeq([i \in 1..Len(estimates) |->
                            estimates[i].normalized_probability])
       IN  /\ \A i \in 1..Len(args.outcomes) :
                  args.outcomes[i].name \in DictKeys(ret.outcome_prices)
           /\ \A i \in 1..Len(estimates) :
                  /\ estimates[i].has_normalized
                  /\ estimates[i].normalized_probability =
                         FDiv(estimates[i].probability, ret.total_implied_probability)
           /\ FAbs(sum - One) <= Tolerance(Len(args.outcomes))

\* the opportunities of xs whose net profit is v, in their order in xs
WithProfit(xs, v) ==
    LET IsV(o) == o.net_profit = v IN SelectSeq(xs, IsV)

\* C7: the result of find_arbitrage_opportunities holds the opportunities
\* found, ordered by net_profit descending, those of equal net_profit in the
\* order in which they were found; net profits [5, 20, 11] come out [20, 11, 5].
C7_RankedDescendingStable ==
    /\ Returned("find_arbitrage_opportunities") /\ ret.exc = "none"
       => LET found == Discovered(args.self, args.markets).value
              ranked == ret.value
          IN  /\ Len(ranked) = Len(found)
              /\ \A i \in 1..Len(ranked) - 1 :
                     ranked[i].net_profit >= ranked[i + 1].net_profit
              /\ \A i \in 1..Len(found) :
                     WithProfit(ranked, found[i].net_profit) =
                         WithProfit(found, found[i].net_profit)
    /\ LET example == [i \in 1..3 |->
                          ArbitrageOpportunity(<< >>, DInt(<<5, 20, 11>>[i]), "LOW", << >>)]
           ranked == Sorted(example)
       IN  [i \in 1..3 |-> ranked[i].net_profit] = <<DInt(20), DInt(11), DInt(5)>>

\* C7 witness: a run that found an opportunity of lower profit before one of
\* higher profit, and two of equal profit
C7_Witness ==
    /\ Returned("find_arbitrage_opportunities") /\ ret.exc = "none"
    /\ LET found == Discovered(args.self, args.markets).value
       IN  /\ \E i, j \in 1..Len(found) :
                  i < j /\ found[i].net_profit < found[j].net_profit
           /\ \E i, j \in 1..Len(found) :
                  i < j /\ found[i].net_profit = found[j].net_profit
                        /\ found[i] # found[j]

\* the gross edge of an opportunity, by the row of the trigger table its
\* action steps belong to, from the prices of its two markets
EdgeOf(opp) ==
    LET a == opp.markets[1].prices
        b == opp.markets[2].prices
        steps == opp.action_steps
    IN  IF steps[1].action = "BUY" /\ steps[1].side = "YES"
        THEN 100 - (Dec(a.YES) + Dec(b.YES))
        ELSE IF steps[1].action = "BUY" /\ steps[1].side = "NO"
        THEN 100 - (Dec(a.NO) + Dec(b.NO))
        ELSE Dec(a.YES) - Dec(b.YES)

\* required_capital 100, transaction_costs 100 x 0.02 x 2 = 4,
\* net_profit = gross edge x 100 - 4, profit_potential = net_profit
WellCosted(opp) ==
    /\ opp.required_capital = 100 * 100
    /\ opp.transaction_costs = 4 * 100
    /\ opp.net_profit = EdgeOf(opp) * 100 - 4 * 100
    /\ opp.profit_potential = opp.net_profit

\* the action steps of the rows of the trigger table
StepsOfKind(opp, check) ==
    LET steps == opp.action_steps
    IN  IF check = "check_complementary_markets"
        THEN /\ steps[1].action = "BUY" /\ steps[2].action = "BUY"
             /\ steps[1].side = steps[2].side
        ELSE /\ steps[1].action = "SELL" /\ steps[2].action = "BUY"
             /\ steps[1].side = "YES" /\ steps[2].side = "YES"

\* C8: every opportunity emitted, by any check and in any run, has
\* required_capital = 100, transaction_costs = 4,
\* net_profit = gross edge x 100 - transaction_costs with the gross edge of its
\* kind, and profit_potential = net_profit.
C8_CapitalCostsProfit ==
    /\ pc = "returned" /\ call \in Checks /\ ret.exc = "none" /\ ret.value # None
       => WellCosted(ret.value[1]) /\ StepsOfKind(ret.value[1], call)
    /\ Returned("find_arbitrage_opportunities") /\ ret.exc = "none"
       => \A i \in 1..Len(ret.value) : WellCosted(ret.value[i])

\* C8 witness: the Nested check on 0.30 > 0.20 emitted net profit 6
C8_Witness ==
    /\ Returned("check_nested_markets") /\ ret.exc = "none" /\ ret.value # None
    /\ Dec(args[1].prices.YES) = 30 /\ Dec(args[2].prices.YES) = 20
    /\ ret.value[1].net_profit = 600
    /\ ret.value[1].transaction_costs = 400

\* C9: on a Complementary pair, whenever no(a) + no(b) < 1 and the net profit
\* of the NO side is above the threshold, the BUY-NO opportunity is emitted,
\* whether or not the YES side qualified.
C9_NoSideEmitted ==
    /\ Returned("check_complementary_markets")
    /\ \A i \in 1..2 : HasPrice(args[i], "YES") /\ HasPrice(args[i], "NO")
    => LET sum == Dec(args[1].prices.NO) + Dec(args[2].prices.NO)
       IN  sum < 100 /\ (100 - sum) * 100 - 400 > 200 => Emitted("NO")

\* the side of a book holds no quote: its key is absent or its list is empty
NoQuote(book, key) == key \notin DOMAIN book \/ book[key] = << >>

\* the side of a book holds a quote with a price
Priced(book, key) ==
    key \in DOMAIN book /\ book[key] # << >> /\ "price" \in DOMAIN book[key][1]

\* the best bid and best ask the estimate is to be computed from: the quote's
\* price, or 0 (bid) and 1 (ask) where the side holds no quote
BestOf(book, key, default) ==
    IF NoQuote(book, key) THEN default
    ELSE get_probability_from_price(book[key][1].price)

FromTopOfBook(estimate, bid, ask) ==
    /\ estimate.best_bid = bid
    /\ estimate.best_ask = ask
    /\ estimate.probability = FDiv(FAdd(bid, ask), FInt(2))

\* exactly one of the two sides holds no quote, the other a priced quote
OneSideEmpty(book, bids, asks) ==
    \/ NoQuote(book, bids) /\ Priced(book, asks)
    \/ Priced(book, bids) /\ NoQuote(book, asks)

\* C10: when exactly one side of a book holds no quote, the pricer takes 0 as
\* best bid or 1 as best ask and computes the estimate from the quote on the
\* other side; the market does not become the failure default.
C10_EmptySideDefaulted ==
    /\ pc = "returned" /\ IsBinaryCall /\ args.fetch.ok
       /\ OneSideEmpty(args.fetch.top, "bids", "asks")
       => /\ FromTopOfBook(DictGet(ret.outcome_prices, "Yes"),
                           BestOf(args.fetch.top, "bids", 0),
                           BestOf(args.fetch.top, "asks", One))
          /\ ret.market_efficiency = 0
    /\ pc = "returned" /\ IsMultiCall /\ args.fetch.ok /\ Len(args.outcomes) = 1
       /\ OneSideEmpty(args.fetch.per, <<"bids", args.outcomes[1].id>>,
                       <<"asks", args.outcomes[1].id>>)
       => FromTopOfBook(ret.outcome_prices[1][2],
                        BestOf(args.fetch.per, <<"bids", args.outcomes[1].id>>, 0),
                        BestOf(args.fetch.per, <<"asks", args.outcomes[1].id>>, One))


\* ---------------------------------------------------------------- C11
\* the pairs (i, j) with i < j of a sequence of n elements, row by row
RECURSIVE UpperTriangular(_, _)
UpperTriangular(i, n) ==
    IF i >= n THEN << >>
    ELSE [k \in 1..(n - i) |-> << i, i + k >>] \o UpperTriangular(i + 1, n)

\* the calls one kind owes a pair: its predicate, then its check if the
\* predicate's answer is true
KindCalls(predicate, answer, check, i, j) ==
    IF Truthy(answer) THEN << Called(predicate, i, j), Called(check, i, j) >>
    ELSE << Called(predicate, i, j) >>

\* the calls a pair is owed: Complementary, then Nested, then Temporal
PairCalls(self, markets, i, j) ==
    KindCalls("_are_complementary",
              Predicate(self, _are_complementary(markets[i], markets[j])),
              "check_complementary_markets", i, j)
    \o KindCalls("_is_nested",
                 Predicate(self, _is_nested(markets[i], markets[j])),
                 "check_nested_markets", i, j)
    \o KindCalls("_are_temporal",
                 Predicate(self, _are_temporal(markets[i], markets[j])),
                 "check_temporal_markets", i, j)

RECURSIVE OwedCalls(_, _, _)
OwedCalls(self, markets, pairs) ==
    IF pairs = << >> THEN << >>
    ELSE PairCalls(self, markets, Head(pairs)[1], Head(pairs)[2])
         \o OwedCalls(self, markets, Tail(pairs))

\* the checks find_arbitrage_opportunities called on the pair at (i, j)
ChecksCalled(trace, i, j) ==
    { k \in 1..Len(trace) :
        trace[k].i = i /\ trace[k].j = j /\ trace[k].op \in Checks }

\* C11: find_arbitrage_opportunities visits each pair (i, j), i < j, exactly
\* once in upper-triangular order, and on each pair evaluates Complementary,
\* then Nested, then Temporal, running every check whose kind matches; a pair
\* has at most three checks run on it.
C11_EveryPairEveryKindInOrder ==
    Returned("find_arbitrage_opportunities") =>
        LET found == Discovered(args.self, args.markets)
            n == Len(args.markets)
        IN  /\ found.trace = OwedCalls(args.self, args.markets, UpperTriangular(1, n))
            /\ \A i \in 1..n, j \in 1..n :
                   Cardinality(ChecksCalled(found.trace, i, j)) <= 3


\* ---------------------------------------------------------------- C12
\* the classifier asserts the relationship a check is for: the detector's
\* predicates are implemented and the kind's rule holds for the pair
Asserted(self, check, market1, market2) ==
    /\ self.classifier = "rules"
    /\ CASE check = "check_complementary_markets" -> _are_complementary(market1, market2)
         [] check = "check_nested_markets" -> _is_nested(market1, market2)
         [] check = "check_temporal_markets" -> _are_temporal(market1, market2)

\* the classifier asserts no relationship for the pair
Unrelated(self, market1, market2) ==
    \A check \in Checks : ~Asserted(self, check, market1, market2)

\* what the pair at (i, j) contributes when the loops reach it
Contribution(self, markets, i, j) ==
    PairBody(self, [exc |-> "none", value |-> << >>, trace |-> << >>], markets, i, j).value

\* some check would emit an opportunity on the pair's prices
WouldEmit(market1, market2) ==
    \/ check_complementary_markets(market1, market2).value # << >>
    \/ check_nested_markets(market1, market2).value # << >>
    \/ check_temporal_markets(market1, market2).value # << >>

\* C12: a check runs on a pair only when the classifier asserted its kind for
\* the pair; a pair for which the classifier asserts no relationship (an
\* indeterminate answer included) is passed to no check and contributes no
\* opportunity, whatever its prices.
C12_CheckOnlyWhenClassified ==
    Returned("find_arbitrage_opportunities") =>
        LET self == args.self
            markets == args.markets
            trace == Discovered(self, markets).trace
        IN  /\ \A k \in 1..Len(trace) :
                   trace[k].op \in Checks =>
                       Asserted(self, trace[k].op, markets[trace[k].i], markets[trace[k].j])
            /\ \A i \in 1..Len(markets), j \in 1..Len(markets) :
                   (i < j /\ Unrelated(self, markets[i], markets[j])) =>
                       /\ ChecksCalled(trace, i, j) = {}
                       /\ Contribution(self, markets, i, j) = << >>
            /\ (\A i \in 1..Len(markets), j \in 1..Len(markets) :
                    i < j => Unrelated(self, markets[i], markets[j]))
                   => ret = Returns(<< >>)

\* C12 witness: the run of a detector whose predicates answer None, on a pair
\* whose prices would make a check emit, has returned nothing
C12_Witness ==
    /\ Returned("find_arbitrage_opportunities")
    /\ Len(args.markets) = 2
    /\ Unrelated(args.self, args.markets[1], args.markets[2])
    /\ WouldEmit(args.markets[1], args.markets[2])
    /\ args.self.classifier = "stub"
    /\ ret = Returns(<< >>)


\* ---------------------------------------------------------------- C13
\* the outcome names of the market priced
OutcomeNames == {args.outcomes[i].name : i \in 1..Len(args.outcomes)}

\* C13: the estimate map returned by get_market_prices has exactly the
\* market's outcome names as keys; on the binary path the keys are exactly
\* "Yes" and "No", and they are the market's two outcomes up to casing.
C13_KeysAreOutcomeNames ==
    pc = "returned" /\ call = "get_market_prices" =>
        LET keys == DictKeys(ret.outcome_prices)
        IN  IF IsBinary(args.outcomes)
            THEN /\ keys = {"Yes", "No"}
                 /\ Len(ret.outcome_prices) = 2
                 /\ {Lower(k) : k \in keys} = {Lower(n) : n \in OutcomeNames}
            ELSE keys = OutcomeNames


\* ---------------------------------------------------------------- C14
\* best_ask - best_bid of the i-th outcome of the list, from its own quotes
SpreadOf(i) ==
    FSub(BestOf(args.fetch.per, <<"asks", args.outcomes[i].id>>, One),
         BestOf(args.fetch.per, <<"bids", args.outcomes[i].id>>, 0))

\* the mean of the spreads of all outcomes of the list
MeanSpread ==
    FDiv(FSum([i \in 1..Len(args.outcomes) |-> SpreadOf(i)], 0),
         FInt(Len(args.outcomes)))

\* C14: for a successfully fetched multi-outcome market, market_efficiency is
\* |1 - total_implied_probability| and average_spread is the mean of
\* best_ask - best_bid over all outcomes of the outcome list, two outcomes
\* sharing a name included.
C14_EfficiencyAndMeanSpread ==
    pc = "returned" /\ IsMultiCall /\ ~FetchOrParseFailed =>
        /\ ret.market_efficiency = FAbs(FSub(One, ret.total_implied_probability))
        /\ ret.average_spread = MeanSpread


\* ---------------------------------------------------------------- C15
\* the side of a book holds a quote whose price is missing or is no decimal
Malformed(book, key) ==
    /\ ~NoQuote(book, key)
    /\ \/ "price" \notin DOMAIN book[key][1]
       \/ ~Decimal(book[key][1].price).ok

\* the price a side is to contribute: the default where it holds no quote,
\* 0.0 where its quote is malformed, the quote's price otherwise
FailSoft(book, key, default) ==
    IF NoQuote(book, key) THEN default
    ELSE IF Malformed(book, key) THEN 0
    ELSE get_probability_from_price(book[key][1].price)

\* no side of the book read for the market is present and empty
NoEmptySide ==
    /\ ~EmptySide("bids") /\ ~EmptySide("asks")
    /\ \A k \in DOMAIN args.fetch.per : args.fetch.per[k] # << >>

\* the sides the pricer reads for the market
SidesRead ==
    IF IsBinary(args.outcomes) THEN {"bids", "asks"}
    ELSE {"bids", "asks"} \X {args.outcomes[i].id : i \in 1..Len(args.outcomes)}

BookRead == IF IsBinary(args.outcomes) THEN args.fetch.top ELSE args.fetch.per

\* C15: a malformed quote (a price that is no decimal string, or a quote
\* without a price) counts as 0.0 for that quote only: the market is not
\* replaced by the failure defaults, and every outcome is priced from its own
\* quotes.  Stated for fetched books without an empty side and outcome lists
\* of distinct names.
C15_MalformedQuoteIsZero ==
    /\ pc = "returned" /\ call = "get_market_prices" /\ args.fetch.ok
    /\ NoEmptySide
    /\ Cardinality(OutcomeNames) = Len(args.outcomes)
    /\ \E key \in SidesRead : Malformed(BookRead, key)
    => IF IsBinary(args.outcomes)
       THEN /\ FromTopOfBook(DictGet(ret.outcome_prices, "Yes"),
                             FailSoft(args.fetch.top, "bids", 0),
                             FailSoft(args.fetch.top, "asks", One))
            /\ ret.market_efficiency = 0
       ELSE \A i \in 1..Len(args.outcomes) :
                FromTopOfBook(DictGet(ret.outcome_prices, args.outcomes[i].name),
                              FailSoft(args.fetch.per, <<"bids", args.outcomes[i].id>>, 0),
                              FailSoft(args.fetch.per, <<"asks", args.outcomes[i].id>>, One))


\* ---------------------------------------------------------------- C16
\* the keys a check reads from market.prices
KeysRead(check) ==
    IF check = "check_complementary_markets" THEN {"YES", "NO"} ELSE {"YES"}

\* the book of a binary market was fetched and priced by the try block
SuccessfullyPriced(book) ==
    /\ book.ok
    /\ ~("bids" \in DOMAIN book.top /\ book.top["bids"] = << >>)
    /\ ~("asks" \in DOMAIN book.top /\ book.top["asks"] = << >>)

\* C16: in the pipeline pricer -> detector, every key a check reads from
\* market.prices is present in what the pricer produced for a binary market,
\* so a check on two successfully priced binary markets computes its trigger
\* and raises nothing.
C16_PricerOutputConsumable ==
    /\ Returned("pipeline")
    /\ SuccessfullyPriced(args.books[1]) /\ SuccessfullyPriced(args.books[2])
    => /\ KeysRead(args.check) \subseteq DOMAIN Priced1.prices
       /\ KeysRead(args.check) \subseteq DOMAIN Priced2.prices
       /\ ret.exc = "none"

====
